---- MODULE Spec2Model ----
(***************************************************************************)
(* Form-validation feature of testando-libs-react-native:                  *)
(*   - useDebouncedValidation (hooks/useDebouncedValidation.ts), one hook   *)
(*     instance per mounted field, timers kept in the host's timer table;   *)
(*   - useFormValidation (hooks/useFormValidation.ts), the react-hook-form  *)
(*     form configured with zodResolver, mode and reValidateMode;           *)
(*   - calculatePasswordStrength (utils/passwordStrength).                  *)
(* Strings are sequences of one-character strings.                          *)
(***************************************************************************)
EXTENDS Integers, Sequences, FiniteSets, TLC

\* ---------------------------------------------------------------- bounds
MaxTime == 1000
MaxEdits == 3
MaxPairEdits == 2
MaxPwdLen == 6
MaxSubmits == 2
MaxHookLen == 4
MaxEmailLen == 4
MaxStyleOps == 3

MaxDebounceCalls == 3

MaxTasks == 2

\* ------------------------------------------------------------- characters
UpperChars ==
    {"A", "B", "C", "D", "E", "F", "G", "H", "I", "J", "K", "L", "M",
     "N", "O", "P", "Q", "R", "S", "T", "U", "V", "W", "X", "Y", "Z"}

LowerChars ==
    {"a", "b", "c", "d", "e", "f", "g", "h", "i", "j", "k", "l", "m",
     "n", "o", "p", "q", "r", "s", "t", "u", "v", "w", "x", "y", "z"}

DigitChars == {"0", "1", "2", "3", "4", "5", "6", "7", "8", "9"}

SymbolChars ==
    {"!", "@", "#", "$", "%", "^", "&", "*", "(", ")", ",", ".", "?",
     "\"", ":", "{", "}", "|", "<", ">"}

SpaceChars == {" "}

\* ------------------------------------------------------------ messages
\* ERROR_MESSAGES (accents dropped)
PASSWORD_REQUIRED == "Senha e obrigatoria"

PASSWORD_TOO_SHORT == "Minimo 6 caracteres obrigatorio"

PASSWORD_NO_UPPERCASE == "Deve incluir letra maiuscula"

PASSWORD_NO_LOWERCASE == "Deve incluir letra minuscula"

PASSWORD_NO_NUMBER == "Deve incluir numero"

PASSWORD_NO_SYMBOL == "Deve incluir simbolo (!@#$%^&* etc)"

\* --------------------------------------------- calculatePasswordStrength
MinPasswordLength == 6

\* regex.test(password) for a character class
HasCharIn(password, class) == \E i \in 1..Len(password) : password[i] \in class

PasswordRequirements(password) ==
    [minLength |-> Len(password) >= MinPasswordLength,
     hasUppercase |-> HasCharIn(password, UpperChars),
     hasLowercase |-> HasCharIn(password, LowerChars),
     hasNumber |-> HasCharIn(password, DigitChars),
     hasSymbol |-> HasCharIn(password, SymbolChars)]

Min2(a, b) == IF a <= b THEN a ELSE b

Max2(a, b) == IF a >= b THEN a ELSE b

\* Mutant: the symbol requirement is not counted.
PasswordScoreNoSymbol(requirements) ==
    LET s1 == IF requirements.minLength THEN 1 ELSE 0
        s2 == IF requirements.hasUppercase THEN s1 + 1 ELSE s1
        s3 == IF requirements.hasLowercase THEN s2 + 1 ELSE s2
        s4 == IF requirements.hasNumber THEN s3 + 1 ELSE s3
    IN  Min2(Max2(s4, 0), 5)

\* let score = 0; if (...) score++; ...; Math.min(Math.max(score, 0), 5)
PasswordScore(requirements) ==
    LET s1 == IF requirements.minLength THEN 1 ELSE 0
        s2 == IF requirements.hasUppercase THEN s1 + 1 ELSE s1
        s3 == IF requirements.hasLowercase THEN s2 + 1 ELSE s2
        s4 == IF requirements.hasNumber THEN s3 + 1 ELSE s3
        s5 == IF requirements.hasSymbol THEN s4 + 1 ELSE s4
    IN  Min2(Max2(s5, 0), 5)

\* Mutant: the two top labels are exchanged.
StrengthLabelSwapped(score) ==
    CASE score = 0 -> "Muito fraca"
      [] score = 1 -> "Fraca"
      [] score = 2 -> "Media"
      [] score = 3 -> "Forte"
      [] score = 4 -> "Excelente"
      [] score = 5 -> "Muito forte"

\* PASSWORD_STRENGTH_CONFIG[score].label
StrengthLabel(score) ==
    CASE score = 0 -> "Muito fraca"
      [] score = 1 -> "Fraca"
      [] score = 2 -> "Media"
      [] score = 3 -> "Forte"
      [] score = 4 -> "Muito forte"
      [] score = 5 -> "Excelente"

\* if (!requirement) list.push(entry), for one requirement
PushIfNot(list, met, entry) == IF ~met THEN Append(list, entry) ELSE list

\* Mutant: the lowercase entry is pushed before the uppercase entry.
MissingRequirementsReordered(requirements) ==
    LET m1 == PushIfNot(<<>>, requirements.minLength, PASSWORD_TOO_SHORT)
        m2 == PushIfNot(m1, requirements.hasLowercase, PASSWORD_NO_LOWERCASE)
        m3 == PushIfNot(m2, requirements.hasUppercase, PASSWORD_NO_UPPERCASE)
        m4 == PushIfNot(m3, requirements.hasNumber, PASSWORD_NO_NUMBER)
    IN  PushIfNot(m4, requirements.hasSymbol, PASSWORD_NO_SYMBOL)

MissingRequirements(requirements) ==
    LET m1 == PushIfNot(<<>>, requirements.minLength, PASSWORD_TOO_SHORT)
        m2 == PushIfNot(m1, requirements.hasUppercase, PASSWORD_NO_UPPERCASE)
        m3 == PushIfNot(m2, requirements.hasLowercase, PASSWORD_NO_LOWERCASE)
        m4 == PushIfNot(m3, requirements.hasNumber, PASSWORD_NO_NUMBER)
    IN  PushIfNot(m4, requirements.hasSymbol, PASSWORD_NO_SYMBOL)

Suggestions(requirements) ==
    LET g1 == PushIfNot(<<>>, requirements.minLength,
                        "Adicione mais caracteres (minimo 6)")
        g2 == PushIfNot(g1, requirements.hasUppercase, "Adicione uma letra maiuscula")
        g3 == PushIfNot(g2, requirements.hasLowercase, "Adicione uma letra minuscula")
        g4 == PushIfNot(g3, requirements.hasNumber, "Adicione um numero")
    IN  PushIfNot(g4, requirements.hasSymbol, "Adicione um simbolo como !@#$%^&*")

calculatePasswordStrength(password) ==
    LET requirements == PasswordRequirements(password)
        finalScore == PasswordScore(requirements)
    IN  [computed |-> TRUE,
         score |-> finalScore,
         label |-> StrengthLabel(finalScore),
         requirements |-> requirements,
         missingRequirements |-> MissingRequirements(requirements),
         suggestions |-> Suggestions(requirements)]

\* Passwords the strength function is applied to: every string over a
\* five-character alphabet (one character per class and one in no class) up to
\* MaxPwdLen, and the documented examples.
PwdAlphabet == {"A", "b", "1", "!", "-"}

ExamplePasswords ==
    {<<"a", "b", "c">>,
     <<"A", "b", "c", "1", "2", "3", "!">>,
     <<"P", "a", "s", "s", "w", "o", "r", "d">>,
     <<"P", "a", "s", "s", "1", "!">>}

\* Passwords of twelve or more characters: the five requirements met, and
\* the symbol missing.
LongPasswords ==
    {<<"A", "b", "c", "d", "e", "f", "1", "2", "3", "4", "5", "6", "!">>,
     <<"A", "b", "c", "d", "e", "f", "g", "h", "1", "2", "3", "4">>}

PasswordInputs ==
    UNION {[1..k -> PwdAlphabet] : k \in 0..MaxPwdLen}
        \cup ExamplePasswords \cup LongPasswords

NoStrength == [computed |-> FALSE]

LengthBonusAt == 12

\* Mutant: the length bonus adds a point.
checkPasswordStrengthBonus(password) ==
    LET s1 == IF Len(password) >= 6 THEN 1 ELSE 0
        s2 == IF HasCharIn(password, UpperChars) THEN s1 + 1 ELSE s1
        s3 == IF HasCharIn(password, LowerChars) THEN s2 + 1 ELSE s2
        s4 == IF HasCharIn(password, DigitChars) THEN s3 + 1 ELSE s3
        s5 == IF HasCharIn(password, SymbolChars) THEN s4 + 1 ELSE s4
    IN  IF Len(password) >= LengthBonusAt THEN s5 + 1 ELSE Min2(s5, 5)

\* checkPasswordStrength(password): one point per requirement; the length
\* bonus returns 5, the score the five requirements already gave.
checkPasswordStrength(password) ==
    LET s1 == IF Len(password) >= 6 THEN 1 ELSE 0
        s2 == IF HasCharIn(password, UpperChars) THEN s1 + 1 ELSE s1
        s3 == IF HasCharIn(password, LowerChars) THEN s2 + 1 ELSE s2
        s4 == IF HasCharIn(password, DigitChars) THEN s3 + 1 ELSE s3
        s5 == IF HasCharIn(password, SymbolChars) THEN s4 + 1 ELSE s4
    IN  IF Len(password) >= LengthBonusAt /\ s5 = 5 THEN 5 ELSE Min2(s5, 5)

\* ---------------------------------------------------------- passwordSchema
\* A value as a schema sees it: a string, null or undefined.
Str(s) == [kind |-> "string", chars |-> s]

NullValue == [kind |-> "null", chars |-> <<>>]

UndefinedValue == [kind |-> "undefined", chars |-> <<>>]

SchemaMinLength == 6

\* Mutant: the schema asks for eight characters where the scorer asks for six.
passwordSchemaIssuesMin8(v) ==
    IF v.kind # "string" THEN <<PASSWORD_REQUIRED>>
    ELSE LET pwd == v.chars
             i1 == IF Len(pwd) < 8 THEN <<PASSWORD_TOO_SHORT>> ELSE <<>>
             i2 == PushIfNot(i1, HasCharIn(pwd, UpperChars), PASSWORD_NO_UPPERCASE)
             i3 == PushIfNot(i2, HasCharIn(pwd, LowerChars), PASSWORD_NO_LOWERCASE)
             i4 == PushIfNot(i3, HasCharIn(pwd, DigitChars), PASSWORD_NO_NUMBER)
         IN  PushIfNot(i4, HasCharIn(pwd, SymbolChars), PASSWORD_NO_SYMBOL)

\* z.string({message}).min(6, ...).refine(...) x 4: a non-string aborts with
\* the required message; every failed check and refinement adds its issue.
passwordSchemaIssues(v) ==
    IF v.kind # "string" THEN <<PASSWORD_REQUIRED>>
    ELSE LET pwd == v.chars
             i1 == IF Len(pwd) < SchemaMinLength THEN <<PASSWORD_TOO_SHORT>> ELSE <<>>
             i2 == PushIfNot(i1, HasCharIn(pwd, UpperChars), PASSWORD_NO_UPPERCASE)
             i3 == PushIfNot(i2, HasCharIn(pwd, LowerChars), PASSWORD_NO_LOWERCASE)
             i4 == PushIfNot(i3, HasCharIn(pwd, DigitChars), PASSWORD_NO_NUMBER)
         IN  PushIfNot(i4, HasCharIn(pwd, SymbolChars), PASSWORD_NO_SYMBOL)

\* schema.safeParse(value), from the issues the schema raised
SafeParse(issues) == [done |-> TRUE, success |-> issues = <<>>, issues |-> issues]

NoParse == [done |-> FALSE]

\* ------------------------------------------------------------ emailSchema
EMAIL_REQUIRED == "Email e obrigatorio"

EMAIL_INVALID == "Por favor, insira um email valido"

EMAIL_TOO_LONG == "Email muito longo (maximo 254 caracteres)"

MaxEmailLength == 254

UpperAlphabet ==
    <<"A", "B", "C", "D", "E", "F", "G", "H", "I", "J", "K", "L", "M",
      "N", "O", "P", "Q", "R", "S", "T", "U", "V", "W", "X", "Y", "Z">>

LowerAlphabet ==
    <<"a", "b", "c", "d", "e", "f", "g", "h", "i", "j", "k", "l", "m",
      "n", "o", "p", "q", "r", "s", "t", "u", "v", "w", "x", "y", "z">>

AlnumChars == UpperChars \cup LowerChars \cup DigitChars

\* The e-mail pattern of the string format check:
\* ^(?!\.)(?!.*\.\.)([A-Za-z0-9_'+\-\.]*)[A-Za-z0-9_+-]@
\*  ([A-Za-z0-9][A-Za-z0-9\-]*\.)+[A-Za-z]{2,}$
EmailDomainMatches(s, b) ==
    LET n == Len(s)
        dots == {k \in b..n : s[k] = "."}
    IN  /\ dots # {}
        /\ LET d == CHOOSE k \in dots : \A j \in dots : j <= k
           IN  /\ n - d >= 2
               /\ \A k \in (d + 1)..n : s[k] \in UpperChars \cup LowerChars
               /\ \A k \in b..d : s[k] \in AlnumChars \cup {"-", "."}
               /\ s[b] \in AlnumChars
               /\ \A k \in dots \ {d} : s[k + 1] \in AlnumChars

EmailPatternMatches(s) ==
    /\ Len(s) > 0
    /\ s[1] # "."
    /\ ~\E k \in 1..(Len(s) - 1) : s[k] = "." /\ s[k + 1] = "."
    /\ \E a \in 2..(Len(s) - 1) :
          /\ s[a] = "@"
          /\ \A k \in 1..(a - 2) : s[k] \in AlnumChars \cup {"_", "'", "+", "-", "."}
          /\ s[a - 1] \in AlnumChars \cup {"_", "+", "-"}
          /\ EmailDomainMatches(s, a + 1)

RECURSIVE TrimStart(_)
TrimStart(s) ==
    IF s # <<>> /\ Head(s) \in SpaceChars THEN TrimStart(Tail(s)) ELSE s

RECURSIVE TrimEnd(_)
TrimEnd(s) ==
    IF s # <<>> /\ s[Len(s)] \in SpaceChars
    THEN TrimEnd(SubSeq(s, 1, Len(s) - 1))
    ELSE s

\* String.prototype.trim
Trim(s) == TrimEnd(TrimStart(s))

\* String.prototype.toLowerCase
ToLowerCase(s) ==
    [i \in 1..Len(s) |->
        IF s[i] \in UpperChars
        THEN LowerAlphabet[CHOOSE k \in 1..Len(UpperAlphabet) : UpperAlphabet[k] = s[i]]
        ELSE s[i]]

\* The refinement: email.split('@') has two parts and the second has a '.'
EmailRefinement(email) ==
    LET ats == {k \in 1..Len(email) : email[k] = "@"}
    IN  /\ Cardinality(ats) = 1
        /\ \E a \in ats : \E k \in (a + 1)..Len(email) : email[k] = "."

\* Mutant: the length limit is not checked.
emailSchemaIssuesNoMax(v) ==
    IF v.kind # "string" THEN <<EMAIL_REQUIRED>>
    ELSE LET raw == v.chars
             i1 == IF Len(raw) < 1 THEN <<EMAIL_REQUIRED>> ELSE <<>>
             i3 == PushIfNot(i1, EmailPatternMatches(raw), EMAIL_INVALID)
             normalized == ToLowerCase(Trim(raw))
         IN  PushIfNot(i3, EmailRefinement(normalized), EMAIL_INVALID)

\* z.string({message}).min(1).max(254).email().trim().toLowerCase().refine():
\* the checks run in the order they were chained, each on the value as the
\* checks before it left it; a failed check adds its issue and the next runs.
emailSchemaIssues(v) ==
    IF v.kind # "string" THEN <<EMAIL_REQUIRED>>
    ELSE LET raw == v.chars
             i1 == IF Len(raw) < 1 THEN <<EMAIL_REQUIRED>> ELSE <<>>
             i2 == IF Len(raw) > MaxEmailLength THEN Append(i1, EMAIL_TOO_LONG) ELSE i1
             i3 == PushIfNot(i2, EmailPatternMatches(raw), EMAIL_INVALID)
             normalized == ToLowerCase(Trim(raw))
         IN  PushIfNot(i3, EmailRefinement(normalized), EMAIL_INVALID)

\* Mutant: a failed validation reports no rule results.
emailValidateNoRules(email, t) ==
    LET result == SafeParse(emailSchemaIssues(Str(email)))
    IN  IF result.success
        THEN [isNull |-> FALSE, isValid |-> TRUE, errors |-> <<>>,
              ruleResults |-> [r \in {"email"} |-> TRUE], validatedAt |-> t]
        ELSE [isNull |-> FALSE, isValid |-> FALSE, errors |-> result.issues,
              ruleResults |-> <<>>, validatedAt |-> t]

\* useEmailValidation's validate(email), called at time t
emailValidate(email, t) ==
    LET result == SafeParse(emailSchemaIssues(Str(email)))
    IN  IF result.success
        THEN [isNull |-> FALSE, isValid |-> TRUE, errors |-> <<>>,
              ruleResults |-> [r \in {"email"} |-> TRUE], validatedAt |-> t]
        ELSE [isNull |-> FALSE, isValid |-> FALSE, errors |-> result.issues,
              ruleResults |-> [r \in {"email"} |-> FALSE], validatedAt |-> t]

\* ------------------------------------------------ useDebouncedValidation
Fields == {"email", "name"}

DefaultDelay == 500

Delays == {250, DefaultDelay}

Quantum == CHOOSE d \in Delays : \A e \in Delays : d <= e

NoTimer == 0

Null == [isNull |-> TRUE]

EmptyValues == {Str(<<>>), NullValue, UndefinedValue}

TypedValues ==
    {Str(<<"a">>), Str(<<"a", "b">>), Str(<<"a", "@", "b", ".", "c", "o">>)}

Values == EmptyValues \cup TypedValues

\* Mutant: only the empty string is treated as empty.
IsEmptyValueStringOnly(v) == v.kind = "string" /\ v.chars = <<>>

\* value === '' || value === null || value === undefined
IsEmptyValue(v) == v.kind # "string" \/ v.chars = <<>>

NonSpace(c) == c \notin SpaceChars

\* /\S+@\S+\.\S+/.test(value)
validateEmailRegex(s) ==
    \E a \in 2..Len(s) :
        /\ s[a] = "@"
        /\ NonSpace(s[a - 1])
        /\ \E d \in (a + 2)..(Len(s) - 1) :
              /\ s[d] = "."
              /\ \A k \in (a + 1)..(d - 1) : NonSpace(s[k])
              /\ NonSpace(s[d + 1])

\* the validator of the usage example, called at time t
validateEmail(v, t) ==
    [isNull |-> FALSE,
     isValid |-> validateEmailRegex(v.chars),
     errors |-> IF validateEmailRegex(v.chars) THEN <<>> ELSE <<"Email invalido">>,
     ruleResults |-> <<>>,
     validatedAt |-> t]

Validators == {"validateEmail", "emailValidate"}

\* validator(value) at time t
CallValidator(fn, v, t) ==
    IF fn = "emailValidate" THEN emailValidate(v.chars, t) ELSE validateEmail(v, t)

VARIABLES
    now,               \* host clock, ms
    timers,            \* the host's pending timeouts
    nextTimerId,       \* the id the next setTimeout returns
    mounted,           \* field -> is the hook instance mounted
    inline,            \* field -> the caller creates the validator anew on every render
                       \* (one coding style for the whole screen)
    value,             \* field -> the value prop
    delay,             \* field -> the delay prop
    validationResult,  \* field -> useState: a ValidationResult or Null
    timeoutRef,        \* field -> useRef: a timer id or NoTimer
    hasCleanup,        \* field -> the last effect run returned the cleanup function
    edits,             \* number of prop changes so far, over all fields
    budget,            \* number of prop changes explored
    validator,         \* the function the caller passes as validator
    calls,             \* field -> number of validator calls so far
    callsSince,        \* field -> validator calls since the last value change
    lastCall,          \* field -> [value, at] of the last validator call
    lastChangeAt,      \* field -> time of the last value change (or of the mount)
    propsStable,       \* field -> the caller passed no other validator (a validator
                       \* created per render aside) or delay since the last value change
    burst,             \* field -> length of the current run of non-empty value changes,
                       \* each arriving before the previous one's delay elapsed
    blurred,           \* field -> a blur arrived while a timer was pending, no edit since
    cancelledDue,      \* field -> due time of the timer pending at unmount, or -1
    returned           \* field -> [value, result]: the value prop and the hook's
                       \* return value in the render that received the latest
                       \* props or state update, before that render's effects ran

dvars ==
    <<validator, now, timers, nextTimerId, mounted, inline, value, delay, validationResult, timeoutRef, hasCleanup, edits, budget, calls,
      callsSince, lastCall, lastChangeAt, propsStable, burst, blurred, cancelledDue,
      returned>>

VARIABLES
    password,          \* the string under analysis
    strength,          \* calculatePasswordStrength(password), once computed
    prevStrength,      \* the report of the string before the last typed character
    parsed,            \* passwordSchema.safeParse(password), once computed
    checked            \* checkPasswordStrength(password), once computed

pvars == <<password, strength, prevStrength, parsed, checked>>

VARIABLES
    formMode,          \* options.mode as passed by the caller, or "undefined"
    formReValidateMode,\* options.reValidateMode as passed, or "undefined"
    formValues,        \* form field -> current value
    touchedFields,     \* form field -> the field was blurred
    formErrors,        \* form field -> formState.errors[field].message, or NoError
    isSubmitted,       \* formState.isSubmitted
    submits,           \* number of calls of the submit handler so far
    onValidCalls       \* number of calls of onValid so far

fvars ==
    <<formMode, formReValidateMode, formValues, touchedFields, formErrors,
      isSubmitted, submits, onValidCalls>>

VARIABLES
    pwUsage,           \* who renders usePasswordValidation: "standalone" (the
                       \* caller uses setValue, validate, reset) or
                       \* "ValidatedPasswordInput" (the argument is the watched field)
    pwInitial,         \* the initialValue argument of the last render
    pwValue,           \* useState value
    pwStrength,        \* useState strength
    pwErrors,          \* useState errors
    pwIsValid,         \* useState isValid
    pwValidated        \* the password validate() last ran on, NullValue when the
                       \* state was last written by the empty branch or by reset

hvars == <<pwUsage, pwInitial, pwValue, pwStrength, pwErrors, pwIsValid, pwValidated>>

VARIABLES
    emInitial,         \* the initialValue argument of useEmailValidation
    emValue,           \* useState value
    emError,           \* useState error: a message or NoMessage
    emIsValid,         \* useState isValid
    emArg,             \* the argument of the last validate() call, NullValue if none
    emResult,          \* the ValidationResult it returned, Null if none
    emEdited           \* setValue was called since the mount or the last reset

evars == <<emInitial, emValue, emError, emIsValid, emArg, emResult, emEdited>>

VARIABLES
    styleHeap,         \* object reference -> the StyleConfig object it points to
    nextStyleRef,      \* the reference the next object literal gets
    styleReturned,     \* the references mergeStyleConfig has returned to callers
    lastMerge,         \* the last mergeStyleConfig call: its argument, the reference
                       \* returned, whether that object was created by the call, and
                       \* the object's content at the return
    styleOps           \* number of mergeStyleConfig calls and caller writes so far

svars == <<styleHeap, nextStyleRef, styleReturned, lastMerge, styleOps>>

VARIABLES
    dbNow,             \* host clock of the debounce() callers, ms
    dbTimers,          \* the host's pending timeouts: [id, fn, args, due]
    dbNextId,          \* the id the next setTimeout returns
    timeoutId,         \* debounced function -> its closure's timeoutId, or NoTimer
    dbCalls,           \* number of calls of debounced functions made by callers
    dLast,             \* debounced function -> [args, at] of its last call
    fnLast,            \* debounced function -> [args, at] of the last call of its fn
    fnSince            \* debounced function -> calls of fn since its last call

uvars == <<dbNow, dbTimers, dbNextId, timeoutId, dbCalls, dLast, fnLast, fnSince>>

VARIABLES
    realmTasks,        \* the Task objects of the Realm, in table order
    nextObjectId,      \* the value the next new ObjectId takes
    listeners,         \* the callbacks registered on realm.objects('Task')
    notified,          \* a change notification awaits delivery to the callbacks
    listenerMounted,   \* RealmListener is mounted
    tasks,             \* useTaskStore.tasks
    loadedUnmounted,   \* loadTasks ran while RealmListener was not mounted
    lastOp,            \* the last store call that opened a write transaction:
                       \* [op, id, title, before (the Realm content before it), threw]
    addTaskCalls,      \* number of addTask calls so far
    todoInput,         \* the newTask field of the Todo form
    todoError,         \* errors.newTask.message, or NoError
    todoSubmitted      \* formState.isSubmitted of the Todo form

tvars ==
    <<realmTasks, nextObjectId, listeners, notified, listenerMounted, tasks,
      loadedUnmounted, lastOp, addTaskCalls, todoInput, todoError, todoSubmitted>>

vars == <<dvars, pvars, fvars, hvars, evars, svars, uvars, tvars>>

PendingOf(f) == {t \in timers : t.field = f}

\* clearTimeout(id): an id that already fired or was cleared is ignored
clearTimeout(tms, id) == {t \in tms : t.id # id}

\* Mutant: the outstanding timeout is never cleared.
ClearPendingNever(tms, ref) == tms

\* if (timeoutRef.current) { clearTimeout(timeoutRef.current); }
ClearPending(tms, ref) == IF ref # NoTimer THEN clearTimeout(tms, ref) ELSE tms

\* The hook-instance state one effect run reads and writes.
HookState(f) ==
    [timers |-> timers, nextId |-> nextTimerId, ref |-> timeoutRef[f],
     result |-> validationResult[f], cleanup |-> hasCleanup[f]]

\* Mutant: the effect returns no cleanup.
EffectCleanupMissing(s) == s

\* The cleanup returned by the previous effect run, if it returned one.
EffectCleanup(s) ==
    IF s.cleanup THEN [s EXCEPT !.timers = ClearPending(s.timers, s.ref)] ELSE s

\* The effect body, run for value v and delay d at time t.
EffectBody(s, f, v, d, t) ==
    LET cleared == ClearPending(s.timers, s.ref)
    IN  IF IsEmptyValue(v)
        THEN [s EXCEPT !.timers = cleared, !.result = Null, !.cleanup = FALSE]
        ELSE [s EXCEPT
                !.timers = cleared \cup
                    {[id |-> s.nextId, field |-> f, value |-> v, due |-> t + d]},
                !.ref = s.nextId,
                !.nextId = s.nextId + 1,
                !.result = Null,
                !.cleanup = TRUE]

\* Mutant: throttle instead of debounce, a pending timeout is left to fire.
RunEffectThrottled(s, f, v, d, t) ==
    IF \E tm \in s.timers : tm.id = s.ref
    THEN s
    ELSE EffectBody(EffectCleanup(s), f, v, d, t)

\* A dependency changed: React runs the previous cleanup, then the effect.
RunEffect(s, f, v, d, t) == EffectBody(EffectCleanup(s), f, v, d, t)

\* Commit of a render in which a dependency changed.  The effect's
\* setValidationResult(null) re-renders when the state was not null; with a
\* validator created on every render that render changes a dependency again.
CommitDepsChange(s, f, v, d, t) ==
    LET s1 == RunEffect(s, f, v, d, t)
    IN  IF inline[f] /\ s1.result # s.result THEN RunEffect(s1, f, v, d, t) ELSE s1

\* Commit of a render caused by setValidationResult(result) in the timer.
CommitResult(s, f, v, d, t) ==
    IF inline[f] THEN CommitDepsChange(s, f, v, d, t) ELSE s

Install(s, f) ==
    /\ timers' = s.timers
    /\ nextTimerId' = s.nextId
    /\ timeoutRef' = [timeoutRef EXCEPT ![f] = s.ref]
    /\ validationResult' = [validationResult EXCEPT ![f] = s.result]
    /\ hasCleanup' = [hasCleanup EXCEPT ![f] = s.cleanup]

\* State after the fields of `rendered` mounted with an empty value and their
\* effects ran; the other fields are not on screen.
InitDebounce(rendered, maxEdits, validators) ==
    /\ budget = maxEdits
    /\ validator \in validators
    /\ now = 0
    /\ timers = {}
    /\ nextTimerId = 1
    /\ mounted = [f \in Fields |-> f \in rendered]
    /\ \E everyRender \in BOOLEAN :
          inline = [f \in Fields |-> everyRender /\ f \in rendered]
    /\ value = [f \in Fields |-> Str(<<>>)]
    /\ delay = [f \in Fields |-> DefaultDelay]
    /\ validationResult = [f \in Fields |-> Null]
    /\ timeoutRef = [f \in Fields |-> NoTimer]
    /\ hasCleanup = [f \in Fields |-> FALSE]
    /\ edits = 0
    /\ calls = [f \in Fields |-> 0]
    /\ callsSince = [f \in Fields |-> 0]
    /\ lastCall = [f \in Fields |-> [value |-> Str(<<>>), at |-> -1]]
    /\ lastChangeAt = [f \in Fields |-> 0]
    /\ propsStable = [f \in Fields |-> TRUE]
    /\ burst = [f \in Fields |-> 0]
    /\ blurred = [f \in Fields |-> FALSE]
    /\ cancelledDue = [f \in Fields |-> -1]
    /\ returned = [f \in Fields |-> [value |-> Str(<<>>), result |-> Null]]

\* The caller renders the field with a new value (onChangeText -> setEmail).
ChangeValue(f, v) ==
    /\ mounted[f]
    /\ edits < budget
    /\ v # value[f]
    /\ Install(CommitDepsChange(HookState(f), f, v, delay[f], now), f)
    /\ value' = [value EXCEPT ![f] = v]
    /\ edits' = edits + 1
    /\ callsSince' = [callsSince EXCEPT ![f] = 0]
    /\ lastChangeAt' = [lastChangeAt EXCEPT ![f] = now]
    /\ propsStable' = [propsStable EXCEPT ![f] = TRUE]
    /\ burst' = [burst EXCEPT ![f] =
          IF IsEmptyValue(v) \/ inline[f] THEN 0
          ELSE IF @ >= 1 /\ propsStable[f] /\ now < lastChangeAt[f] + delay[f]
               THEN @ + 1 ELSE 1]
    /\ blurred' = [blurred EXCEPT ![f] = FALSE]
    /\ returned' = [returned EXCEPT ![f] = [value |-> v, result |-> validationResult[f]]]
    /\ UNCHANGED <<pvars, fvars, hvars, evars, svars, uvars, tvars, budget, validator, now, mounted, inline, delay, calls, lastCall,
                   cancelledDue>>

\* The caller passes a different (memoized) validator function.
ChangeValidator(f) ==
    /\ mounted[f]
    /\ ~inline[f]
    /\ edits < budget
    /\ Install(CommitDepsChange(HookState(f), f, value[f], delay[f], now), f)
    /\ edits' = edits + 1
    /\ propsStable' = [propsStable EXCEPT ![f] = FALSE]
    /\ burst' = [burst EXCEPT ![f] = 0]
    /\ returned' = [returned EXCEPT ![f] =
          [value |-> value[f], result |-> validationResult[f]]]
    /\ UNCHANGED <<pvars, fvars, hvars, evars, svars, uvars, tvars, budget, validator, now, mounted, inline, value, delay, calls, callsSince,
                   lastCall, lastChangeAt, blurred, cancelledDue>>

\* The caller passes a different delay.
ChangeDelay(f, d) ==
    /\ mounted[f]
    /\ edits < budget
    /\ d # delay[f]
    /\ Install(CommitDepsChange(HookState(f), f, value[f], d, now), f)
    /\ delay' = [delay EXCEPT ![f] = d]
    /\ edits' = edits + 1
    /\ propsStable' = [propsStable EXCEPT ![f] = FALSE]
    /\ burst' = [burst EXCEPT ![f] = 0]
    /\ returned' = [returned EXCEPT ![f] =
          [value |-> value[f], result |-> validationResult[f]]]
    /\ UNCHANGED <<pvars, fvars, hvars, evars, svars, uvars, tvars, budget, validator, now, mounted, inline, value, calls, callsSince,
                   lastCall, lastChangeAt, blurred, cancelledDue>>

\* The input loses focus.  The hook takes no blur input and the field of the
\* usage example registers no onBlur handler: no hook state changes.
Blur(f) ==
    /\ mounted[f]
    /\ ~blurred[f]
    /\ PendingOf(f) # {}
    /\ blurred' = [blurred EXCEPT ![f] = TRUE]
    /\ UNCHANGED <<pvars, fvars, hvars, evars, svars, uvars, tvars, budget, validator, now, timers, nextTimerId, mounted, inline, value, delay,
                   validationResult, timeoutRef, hasCleanup, edits,
                   calls, callsSince, lastCall, lastChangeAt, propsStable,
                   burst, cancelledDue, returned>>

\* The field unmounts: React runs the cleanup of the last effect run.
Unmount(f) ==
    /\ mounted[f]
    /\ mounted' = [mounted EXCEPT ![f] = FALSE]
    /\ timers' = EffectCleanup(HookState(f)).timers
    /\ cancelledDue' = [cancelledDue EXCEPT ![f] =
          IF PendingOf(f) # {} THEN (CHOOSE t \in PendingOf(f) : TRUE).due ELSE -1]
    /\ UNCHANGED <<pvars, fvars, hvars, evars, svars, uvars, tvars, budget, validator, now, nextTimerId, inline, value, delay,
                   validationResult, timeoutRef, hasCleanup, edits, calls,
                   callsSince, lastCall, lastChangeAt, propsStable, burst,
                   blurred, returned>>

\* The timeout callback: validator(value), then setValidationResult(result).
\* A state update of an unmounted component is dropped by React.
TimerFire(t) ==
    /\ t \in timers
    /\ t.due <= now
    /\ LET f == t.field
           fired == [HookState(f) EXCEPT !.timers = timers \ {t}]
           result == CallValidator(validator, t.value, now)
       IN  /\ calls' = [calls EXCEPT ![f] = @ + 1]
           /\ callsSince' = [callsSince EXCEPT ![f] = @ + 1]
           /\ lastCall' = [lastCall EXCEPT ![f] = [value |-> t.value, at |-> now]]
           /\ IF mounted[f]
              THEN Install(CommitResult([fired EXCEPT !.result = result],
                                        f, value[f], delay[f], now), f)
              ELSE Install(fired, f)
           /\ returned' = [returned EXCEPT ![f] =
                 IF mounted[f] THEN [value |-> value[f], result |-> result] ELSE @]
    /\ UNCHANGED <<pvars, fvars, hvars, evars, svars, uvars, tvars, budget, validator, now, mounted, inline, value, delay, edits,
                   lastChangeAt, propsStable, burst, blurred, cancelledDue>>

\* Time passes, up to the next due timer: a due timeout runs before the clock
\* moves on.
Tick ==
    /\ now < MaxTime
    /\ \A t \in timers : t.due > now
    /\ LET target == now + Quantum
           dues == {t.due : t \in timers}
       IN  now' = IF \E d \in dues : d < target
                  THEN CHOOSE d \in dues : \A e \in dues : d <= e
                  ELSE target
    /\ UNCHANGED <<pvars, fvars, hvars, evars, svars, uvars, tvars, budget, validator, timers, nextTimerId, mounted, inline, value, delay,
                   validationResult, timeoutRef, hasCleanup, edits,
                   calls, callsSince, lastCall, lastChangeAt, propsStable, burst,
                   blurred, cancelledDue, returned>>

NextDebounce ==
    \/ \E f \in Fields, v \in Values : ChangeValue(f, v)
    \/ \E f \in Fields : ChangeValidator(f)
    \/ \E f \in Fields, d \in Delays : ChangeDelay(f, d)
    \/ \E f \in Fields : Blur(f)
    \/ \E f \in Fields : Unmount(f)
    \/ \E t \in timers : TimerFire(t)
    \/ Tick

\* ------------------------------------------- password strength machine
InitPassword ==
    /\ password \in PasswordInputs
    /\ strength = NoStrength
    /\ prevStrength = NoStrength
    /\ parsed = NoParse
    /\ checked = NoStrength

\* No password under analysis.
IdlePassword ==
    /\ password = <<>>
    /\ strength = NoStrength
    /\ prevStrength = NoStrength
    /\ parsed = NoParse
    /\ checked = NoStrength

\* The password is analysed: calculatePasswordStrength(password),
\* passwordSchema.safeParse(password) and checkPasswordStrength(password).
Calculate ==
    /\ ~strength.computed
    /\ strength' = calculatePasswordStrength(password)
    /\ parsed' = SafeParse(passwordSchemaIssues(Str(password)))
    /\ checked' = [computed |-> TRUE, score |-> checkPasswordStrength(password)]
    /\ UNCHANGED <<dvars, fvars, hvars, evars, svars, uvars, tvars, password, prevStrength>>

\* One more character is typed and the new string is analysed.
TypeChar(c) ==
    /\ strength.computed
    /\ Len(password) < MaxPwdLen
    /\ password' = Append(password, c)
    /\ prevStrength' = strength
    /\ strength' = calculatePasswordStrength(password')
    /\ parsed' = SafeParse(passwordSchemaIssues(Str(password')))
    /\ checked' = [computed |-> TRUE, score |-> checkPasswordStrength(password')]
    /\ UNCHANGED <<dvars, fvars, hvars, evars, svars, uvars, tvars>>

NextPassword ==
    \/ Calculate
    \/ \E c \in PwdAlphabet : TypeChar(c)

\* ---------------------------------------------------- useFormValidation
\* The form of the model: useFormValidation(z.object({name, password})) with
\* the `name` rule of registerSchema and passwordSchema, no defaultValues.
FormFields == {"name", "password"}

NoError == ""

MinNameLength == 2

MaxNameLength == 50

NAME_TOO_SHORT == "Nome deve ter pelo menos 2 caracteres"

NAME_TOO_LONG == "Nome nao pode ter mais de 50 caracteres"

ZOD_REQUIRED == "Required"

\* z.string().min(2, ...).max(50, ...)
nameSchemaIssues(v) ==
    IF v.kind # "string" THEN <<ZOD_REQUIRED>>
    ELSE LET i1 == IF Len(v.chars) < MinNameLength THEN <<NAME_TOO_SHORT>> ELSE <<>>
         IN  IF Len(v.chars) > MaxNameLength THEN Append(i1, NAME_TOO_LONG) ELSE i1

SchemaIssues(f, v) ==
    IF f = "name" THEN nameSchemaIssues(v) ELSE passwordSchemaIssues(v)

LongName == [i \in 1..(MaxNameLength + 1) |-> "n"]

FormInputs(f) ==
    IF f = "name"
    THEN {Str(<<>>), Str(<<"A">>), Str(<<"A", "n">>), Str(LongName)}
    ELSE {Str(<<>>), Str(<<"a", "b", "c">>),
          Str(<<"A", "b", "c", "1", "2", "3", "!">>)}

\* Mutant: useForm is given no resolver, nothing is validated.
zodResolverOmitted(values) == [f \in FormFields |-> NoError]

\* resolver: zodResolver(schema): the message of the first issue of each field
zodResolver(values) ==
    [f \in FormFields |->
        IF SchemaIssues(f, values[f]) = <<>> THEN NoError
        ELSE Head(SchemaIssues(f, values[f]))]

OptionModes == {"undefined", "onBlur", "onChange", "onSubmit"}

\* mode: options?.mode || 'onBlur'
Mode(option) == IF option = "undefined" THEN "onBlur" ELSE option

\* reValidateMode: options?.reValidateMode || 'onChange'
ReValidateMode(option) == IF option = "undefined" THEN "onChange" ELSE option

\* useForm: `mode` is the validation strategy before the first submit,
\* `reValidateMode` the strategy after it.
ValidatesOn(event) ==
    IF isSubmitted THEN ReValidateMode(formReValidateMode) = event
    ELSE Mode(formMode) = event

InitForm ==
    /\ formMode \in OptionModes
    /\ formReValidateMode \in OptionModes
    /\ formValues = [f \in FormFields |-> UndefinedValue]
    /\ touchedFields = [f \in FormFields |-> FALSE]
    /\ formErrors = [f \in FormFields |-> NoError]
    /\ isSubmitted = FALSE
    /\ submits = 0
    /\ onValidCalls = 0

\* No form on screen: a form with the default options, never used.
IdleForm ==
    /\ formMode = "undefined"
    /\ formReValidateMode = "undefined"
    /\ formValues = [f \in FormFields |-> UndefinedValue]
    /\ touchedFields = [f \in FormFields |-> FALSE]
    /\ formErrors = [f \in FormFields |-> NoError]
    /\ isSubmitted = FALSE
    /\ submits = 0
    /\ onValidCalls = 0

\* field.onChange of the Controller: the value is stored; the field is
\* validated when the strategy in force is onChange.
FieldChange(f, v) ==
    /\ v # formValues[f]
    /\ formValues' = [formValues EXCEPT ![f] = v]
    /\ formErrors' = IF ValidatesOn("onChange")
                     THEN [formErrors EXCEPT ![f] = zodResolver(formValues')[f]]
                     ELSE formErrors
    /\ UNCHANGED <<dvars, pvars, hvars, evars, svars, uvars, tvars, formMode, formReValidateMode, touchedFields,
                   isSubmitted, submits, onValidCalls>>

\* field.onBlur of the Controller: the field is touched; it is validated when
\* the strategy in force is onBlur.
FieldBlur(f) ==
    /\ touchedFields' = [touchedFields EXCEPT ![f] = TRUE]
    /\ formErrors' = IF ValidatesOn("onBlur")
                     THEN [formErrors EXCEPT ![f] = zodResolver(formValues)[f]]
                     ELSE formErrors
    /\ UNCHANGED <<dvars, pvars, hvars, evars, svars, uvars, tvars, formMode, formReValidateMode, formValues,
                   isSubmitted, submits, onValidCalls>>

\* handleSubmit(onValid)(): the resolver runs on the current values, its
\* errors replace formState.errors, and onValid runs when there are none.
Submit ==
    /\ submits < MaxSubmits
    /\ formErrors' = zodResolver(formValues)
    /\ onValidCalls' = IF \A f \in FormFields : formErrors'[f] = NoError
                       THEN onValidCalls + 1 ELSE onValidCalls
    /\ isSubmitted' = TRUE
    /\ submits' = submits + 1
    /\ UNCHANGED <<dvars, pvars, hvars, evars, svars, uvars, tvars, formMode, formReValidateMode, formValues,
                   touchedFields>>

\* reset(): back to the default values and a pristine form state.
FormReset ==
    /\ formValues' = [f \in FormFields |-> UndefinedValue]
    /\ touchedFields' = [f \in FormFields |-> FALSE]
    /\ formErrors' = [f \in FormFields |-> NoError]
    /\ isSubmitted' = FALSE
    /\ UNCHANGED <<dvars, pvars, hvars, evars, svars, uvars, tvars, formMode, formReValidateMode, submits,
                   onValidCalls>>

NextForm ==
    \/ \E f \in FormFields : \E v \in FormInputs(f) : FieldChange(f, v)
    \/ \E f \in FormFields : FieldBlur(f)
    \/ Submit
    \/ FormReset

\* ------------------------------------------------- usePasswordValidation
PasswordUsages == {"standalone", "ValidatedPasswordInput"}

HookInitials == {<<>>, <<"a", "b", "c">>, <<"A", "b", "c", "1", "2", "3", "!">>}

\* The values a caller can move to from `current`: one more typed character,
\* a documented example, or the cleared input.
NextPasswords(current) ==
    {Append(current, c) : c \in {d \in PwdAlphabet : Len(current) < MaxHookLen}}
        \cup ExamplePasswords \cup {<<>>}

PasswordHookState ==
    [value |-> pwValue, strength |-> pwStrength, errors |-> pwErrors,
     isValid |-> pwIsValid, validated |-> pwValidated]

\* Mutant: only the first issue's message is kept.
passwordValidateFirstOnly(s, pwd) ==
    LET result == SafeParse(passwordSchemaIssues(Str(pwd)))
    IN  [s EXCEPT !.strength = calculatePasswordStrength(pwd),
                  !.errors = IF result.success THEN <<>> ELSE <<Head(result.issues)>>,
                  !.isValid = result.success,
                  !.validated = Str(pwd)]

\* validate(password): safeParse, setStrength, then setErrors and setIsValid
passwordValidate(s, pwd) ==
    LET result == SafeParse(passwordSchemaIssues(Str(pwd)))
    IN  [s EXCEPT !.strength = calculatePasswordStrength(pwd),
                  !.errors = IF result.success THEN <<>> ELSE result.issues,
                  !.isValid = result.success,
                  !.validated = Str(pwd)]

\* The effect on [value, validate].
passwordEffect(s) ==
    IF Len(s.value) = 0
    THEN [s EXCEPT !.strength = calculatePasswordStrength(<<>>),
                   !.errors = <<>>,
                   !.isValid = FALSE,
                   !.validated = NullValue]
    ELSE passwordValidate(s, s.value)

\* The useState initial values for the argument `initial`.
passwordInitialState(initial) ==
    [value |-> initial, strength |-> calculatePasswordStrength(initial),
     errors |-> <<>>, isValid |-> FALSE, validated |-> NullValue]

\* reset(): the four setters; the effect runs again when `value` changed.
passwordReset(s, initial) ==
    IF initial # s.value
    THEN passwordEffect(passwordInitialState(initial))
    ELSE passwordInitialState(initial)

InstallPassword(s) ==
    /\ pwValue' = s.value
    /\ pwStrength' = s.strength
    /\ pwErrors' = s.errors
    /\ pwIsValid' = s.isValid
    /\ pwValidated' = s.validated

\* The hook mounted with `initial` and its effect ran.
MountPassword(initial) ==
    LET s == passwordEffect(passwordInitialState(initial))
    IN  /\ pwInitial = initial
        /\ pwValue = s.value
        /\ pwStrength = s.strength
        /\ pwErrors = s.errors
        /\ pwIsValid = s.isValid
        /\ pwValidated = s.validated

InitPasswordHook ==
    /\ pwUsage \in PasswordUsages
    /\ \E initial \in HookInitials : MountPassword(initial)

\* No password hook under study: one mounted with no argument.
IdlePasswordHook ==
    /\ pwUsage = "standalone"
    /\ MountPassword(<<>>)

\* setValue(p) by the caller: re-render, then the effect.
PasswordSetValue(p) ==
    /\ pwUsage = "standalone"
    /\ p # pwValue
    /\ InstallPassword(passwordEffect([PasswordHookState EXCEPT !.value = p]))
    /\ UNCHANGED <<dvars, pvars, fvars, evars, svars, uvars, tvars, pwUsage, pwInitial>>

\* validate(p) called by the caller.
PasswordValidateCall(p) ==
    /\ pwUsage = "standalone"
    /\ InstallPassword(passwordValidate(PasswordHookState, p))
    /\ UNCHANGED <<dvars, pvars, fvars, evars, svars, uvars, tvars, pwUsage, pwInitial>>

\* reset() called by the caller.
PasswordResetCall ==
    /\ pwUsage = "standalone"
    /\ InstallPassword(passwordReset(PasswordHookState, pwInitial))
    /\ UNCHANGED <<dvars, pvars, fvars, evars, svars, uvars, tvars, pwUsage, pwInitial>>

\* The component renders the hook with another argument.  In
\* ValidatedPasswordInput the argument is the watched form value, so every
\* edit of the field is such a render; no dependency of the effect changes.
PasswordRenderWith(p) ==
    /\ p # pwInitial
    /\ \/ pwUsage = "ValidatedPasswordInput" /\ p \in NextPasswords(pwInitial)
       \/ pwUsage = "standalone" /\ p \in HookInitials
    /\ pwInitial' = p
    /\ UNCHANGED <<dvars, pvars, fvars, evars, svars, uvars, tvars, pwUsage, pwValue, pwStrength,
                   pwErrors, pwIsValid, pwValidated>>

NextPasswordHook ==
    \/ \E p \in NextPasswords(pwValue) : PasswordSetValue(p)
    \/ \E p \in ExamplePasswords : PasswordValidateCall(p)
    \/ PasswordResetCall
    \/ \E p \in NextPasswords(pwInitial) \cup HookInitials : PasswordRenderWith(p)

\* --------------------------------------------------- useEmailValidation
\* error: null
NoMessage == ""

EmailAlphabet == {"a", "@", ".", " "}

\* a string of n characters: a run of "a", then "@b.com"
LongEmail(n) ==
    [i \in 1..n |-> IF i <= n - 6 THEN "a" ELSE <<"@", "b", ".", "c", "o", "m">>[i - (n - 6)]]

ExampleEmails ==
    {<<"t", "e", "s", "t", "@", "e", "x", "a", "m", "p", "l", "e", ".", "c", "o", "m">>,
     <<" ", " ", "T", "e", "s", "t", "@", "E", "x", "a", "m", "p", "l", "e", ".",
       "c", "o", "m", " ", " ">>,
     <<"T", "e", "s", "t", "@", "E", "x", "a", "m", "p", "l", "e", ".", "c", "o", "m">>,
     <<"i", "n", "v", "a", "l", "i", "d", "-", "e", "m", "a", "i", "l">>,
     <<"t", "e", "s", "t", "@", "d", "o", "m", "a", "i", "n">>,
     <<"a", "@", "b", ".", "c", "o">>,
     <<" ", "a", "@", "b", ".", "c", "o">>,
     <<"a", " ", "@", "b", ".", "c", "o">>,
     LongEmail(MaxEmailLength),
     LongEmail(MaxEmailLength + 1)}

EmailInitials ==
    {<<>>,
     <<"t", "e", "s", "t", "@", "e", "x", "a", "m", "p", "l", "e", ".", "c", "o", "m">>}

NextEmails(current) ==
    {Append(current, c) : c \in {d \in EmailAlphabet : Len(current) < MaxEmailLen}}
        \cup ExampleEmails \cup {<<>>}

EmailHookState ==
    [value |-> emValue, error |-> emError, isValid |-> emIsValid,
     arg |-> emArg, result |-> emResult]

\* Mutant: the effect reports every validated value as valid.
emailEffectAlwaysValid(s, t) ==
    IF Len(s.value) = 0
    THEN [s EXCEPT !.error = NoMessage, !.isValid = FALSE]
    ELSE LET outcome == emailValidate(s.value, t)
         IN  [s EXCEPT
                !.isValid = TRUE,
                !.error = IF outcome.errors = <<>> THEN NoMessage
                          ELSE outcome.errors[1],
                !.arg = Str(s.value),
                !.result = outcome]

\* The effect on [value, validate], run at time t.
emailEffect(s, t) ==
    IF Len(s.value) = 0
    THEN [s EXCEPT !.error = NoMessage, !.isValid = FALSE]
    ELSE LET outcome == emailValidate(s.value, t)
         IN  [s EXCEPT
                !.isValid = outcome.isValid,
                !.error = IF outcome.errors = <<>> THEN NoMessage
                          ELSE outcome.errors[1],
                !.arg = Str(s.value),
                !.result = outcome]

\* The useState initial values for the argument `initial`.
emailInitialState(initial) ==
    [value |-> initial, error |-> NoMessage, isValid |-> FALSE,
     arg |-> NullValue, result |-> Null]

\* reset(): the three setters; the effect runs again when `value` changed.
emailReset(s, initial, t) ==
    LET r == [s EXCEPT !.value = initial, !.error = NoMessage, !.isValid = FALSE]
    IN  IF initial # s.value THEN emailEffect(r, t) ELSE r

InstallEmail(s) ==
    /\ emValue' = s.value
    /\ emError' = s.error
    /\ emIsValid' = s.isValid
    /\ emArg' = s.arg
    /\ emResult' = s.result

\* The hook mounted with `initial` and its effect ran.
MountEmail(initial) ==
    LET s == emailEffect(emailInitialState(initial), 0)
    IN  /\ emInitial = initial
        /\ emValue = s.value
        /\ emError = s.error
        /\ emIsValid = s.isValid
        /\ emArg = s.arg
        /\ emResult = s.result
        /\ emEdited = FALSE

InitEmailHook == \E initial \in EmailInitials : MountEmail(initial)

\* No e-mail hook under study: one mounted with no argument.
IdleEmailHook == MountEmail(<<>>)

\* setValue(v) by the caller: re-render, then the effect.
EmailSetValue(v) ==
    /\ v # emValue
    /\ InstallEmail(emailEffect([EmailHookState EXCEPT !.value = v], now))
    /\ emEdited' = TRUE
    /\ UNCHANGED <<dvars, pvars, fvars, hvars, svars, uvars, tvars, emInitial>>

\* validate(email) called by the caller: it returns a result and sets no state.
EmailValidateCall(email) ==
    /\ emArg' = Str(email)
    /\ emResult' = emailValidate(email, now)
    /\ UNCHANGED <<dvars, pvars, fvars, hvars, svars, uvars, tvars, emInitial, emValue, emError,
                   emIsValid, emEdited>>

\* reset() called by the caller.
EmailResetCall ==
    /\ InstallEmail(emailReset(EmailHookState, emInitial, now))
    /\ emEdited' = FALSE
    /\ UNCHANGED <<dvars, pvars, fvars, hvars, svars, uvars, tvars, emInitial>>

NextEmailHook ==
    \/ \E v \in NextEmails(emValue) : EmailSetValue(v)
    \/ \E email \in ExampleEmails \cup {<<>>} : EmailValidateCall(email)
    \/ EmailResetCall

\* ------------------------------------------------------ mergeStyleConfig
StyleGroups == {"colors", "border", "typography", "spacing", "errorStyle"}

\* The object literal of defaultStyleConfig (numbers written as strings).
DefaultStyles ==
    [colors |-> [idle |-> "#757575", valid |-> "#4CAF50", invalid |-> "#D32F2F",
                 focus |-> "#2196F3"],
     border |-> [width |-> "2", radius |-> "8", style |-> "solid"],
     typography |-> [fontSize |-> "16", fontWeight |-> "400"],
     spacing |-> [padding |-> "12", marginBottom |-> "16", errorGap |-> "8"],
     errorStyle |-> [marginTop |-> "8"]]

\* The module-level object defaultStyleConfig lives at this reference.
DefaultRef == 0

\* An argument of mergeStyleConfig: undefined, or an object with some groups.
NoCustom == [defined |-> FALSE, groups |-> <<>>]

Custom(groups) == [defined |-> TRUE, groups |-> groups]

Customs ==
    {NoCustom,
     Custom(<<>>),
     Custom([g \in {"colors"} |-> [k \in {"invalid"} |-> "#FF1744"]]),
     Custom([g \in {"border"} |-> [k \in {"width"} |-> "1"]])}

\* The writes a caller makes to an object it was handed: <<group, key, value>>.
StyleWrites == {<<"colors", "invalid", "#000000">>, <<"border", "width", "0">>}

\* { ...base, ...over }; spreading undefined adds nothing
Spread(base, custom, g) ==
    IF g \in DOMAIN custom.groups
    THEN [k \in DOMAIN base \cup DOMAIN custom.groups[g] |->
            IF k \in DOMAIN custom.groups[g] THEN custom.groups[g][k] ELSE base[k]]
    ELSE base

\* mergeStyleConfig(custom): the heap after the call and the reference returned
mergeStyleConfig(heap, nextRef, custom) ==
    IF ~custom.defined
    THEN [heap |-> heap, nextRef |-> nextRef, ref |-> DefaultRef]
    ELSE [heap |-> [r \in DOMAIN heap \cup {nextRef} |->
                       IF r = nextRef
                       THEN [g \in StyleGroups |-> Spread(heap[DefaultRef][g], custom, g)]
                       ELSE heap[r]],
          nextRef |-> nextRef + 1,
          ref |-> nextRef]

NoMerge == [called |-> FALSE]

\* The module was loaded; nothing merged yet.
InitStyles ==
    /\ styleHeap = [r \in {DefaultRef} |-> DefaultStyles]
    /\ nextStyleRef = DefaultRef + 1
    /\ styleReturned = {}
    /\ lastMerge = NoMerge
    /\ styleOps = 0

\* A caller (ValidatedInput's useMemo) calls mergeStyleConfig(custom).
MergeCall(custom) ==
    /\ styleOps < MaxStyleOps
    /\ LET out == mergeStyleConfig(styleHeap, nextStyleRef, custom)
       IN  /\ styleHeap' = out.heap
           /\ nextStyleRef' = out.nextRef
           /\ styleReturned' = styleReturned \cup {out.ref}
           /\ lastMerge' = [called |-> TRUE, custom |-> custom, ref |-> out.ref,
                            fresh |-> out.ref \notin DOMAIN styleHeap,
                            result |-> out.heap[out.ref]]
    /\ styleOps' = styleOps + 1
    /\ UNCHANGED <<dvars, pvars, fvars, hvars, evars, uvars, tvars>>

\* A caller assigns to a property of an object mergeStyleConfig returned.
CallerWrite(ref, w) ==
    /\ styleOps < MaxStyleOps
    /\ ref \in styleReturned
    /\ styleHeap[ref][w[1]][w[2]] # w[3]
    /\ styleHeap' = [styleHeap EXCEPT ![ref][w[1]][w[2]] = w[3]]
    /\ styleOps' = styleOps + 1
    /\ UNCHANGED <<dvars, pvars, fvars, hvars, evars, uvars, tvars, nextStyleRef, styleReturned,
                   lastMerge>>

NextStyles ==
    \/ \E custom \in Customs : MergeCall(custom)
    \/ \E ref \in styleReturned, w \in StyleWrites : CallerWrite(ref, w)

\* -------------------------------------------------------------- debounce()
\* Two functions made by separate debounce(fn, delay) calls.
Debounced == {"d1", "d2"}

DebounceDelays == [d \in Debounced |-> IF d = "d1" THEN DefaultDelay ELSE Quantum]

\* The arguments of the calls.  The wrapped fn, invoked with "again", calls its
\* own debounced function with ReentrantArgs before it returns.
FnArgs == {"a", "abc", "again"}

ReentrantArgs == "a"

FnReenters(args) == args = "again"

PendingOfFn(d) == {t \in dbTimers : t.fn = d}

DebounceState == [timers |-> dbTimers, nextId |-> dbNextId, timeoutId |-> timeoutId]

\* debounced(...args) of the function d, called at time t
debounced(s, d, args, t) ==
    LET cleared == IF s.timeoutId[d] # NoTimer
                   THEN clearTimeout(s.timers, s.timeoutId[d])
                   ELSE s.timers
    IN  [s EXCEPT
           !.timers = cleared \cup
               {[id |-> s.nextId, fn |-> d, args |-> args, due |-> t + DebounceDelays[d]]},
           !.timeoutId[d] = s.nextId,
           !.nextId = s.nextId + 1]

\* The timeout callback of timer tm, run at time t: fn(...args); timeoutId = null
timeoutCallback(s, tm, t) ==
    LET afterFn == IF FnReenters(tm.args)
                   THEN debounced(s, tm.fn, ReentrantArgs, t)
                   ELSE s
    IN  [afterFn EXCEPT !.timeoutId[tm.fn] = NoTimer]

InstallDebounce(s) ==
    /\ dbTimers' = s.timers
    /\ dbNextId' = s.nextId
    /\ timeoutId' = s.timeoutId

\* State right after the two debounce() calls.
InitDebounceFn ==
    /\ dbNow = 0
    /\ dbTimers = {}
    /\ dbNextId = 1
    /\ timeoutId = [d \in Debounced |-> NoTimer]
    /\ dbCalls = 0
    /\ dLast = [d \in Debounced |-> [args |-> "", at |-> -1]]
    /\ fnLast = [d \in Debounced |-> [args |-> "", at |-> -1]]
    /\ fnSince = [d \in Debounced |-> 0]

\* A caller calls d(args).
DebouncedCall(d, args) ==
    /\ dbCalls < MaxDebounceCalls
    /\ InstallDebounce(debounced(DebounceState, d, args, dbNow))
    /\ dbCalls' = dbCalls + 1
    /\ dLast' = [dLast EXCEPT ![d] = [args |-> args, at |-> dbNow]]
    /\ fnSince' = [fnSince EXCEPT ![d] = 0]
    /\ UNCHANGED <<dvars, pvars, fvars, hvars, evars, svars, tvars, dbNow, fnLast>>

\* The host runs the callback of a due timeout.
DebounceTimerFire(tm) ==
    /\ tm \in dbTimers
    /\ tm.due <= dbNow
    /\ InstallDebounce(timeoutCallback(
           [DebounceState EXCEPT !.timers = dbTimers \ {tm}], tm, dbNow))
    /\ fnLast' = [fnLast EXCEPT ![tm.fn] = [args |-> tm.args, at |-> dbNow]]
    /\ dLast' = [dLast EXCEPT ![tm.fn] =
          IF FnReenters(tm.args) THEN [args |-> ReentrantArgs, at |-> dbNow] ELSE @]
    /\ fnSince' = [fnSince EXCEPT ![tm.fn] = IF FnReenters(tm.args) THEN 0 ELSE @ + 1]
    /\ UNCHANGED <<dvars, pvars, fvars, hvars, evars, svars, tvars, dbNow, dbCalls>>

\* Time passes, up to the next due timeout.
DebounceTick ==
    /\ dbNow < MaxTime
    /\ \A t \in dbTimers : t.due > dbNow
    /\ LET target == dbNow + Quantum
           dues == {t.due : t \in dbTimers}
       IN  dbNow' = IF \E d \in dues : d < target
                    THEN CHOOSE d \in dues : \A e \in dues : d <= e
                    ELSE target
    /\ UNCHANGED <<dvars, pvars, fvars, hvars, evars, svars, tvars, dbTimers, dbNextId,
                   timeoutId, dbCalls, dLast, fnLast, fnSince>>

NextDebounceFn ==
    \/ \E d \in Debounced, args \in FnArgs : DebouncedCall(d, args)
    \/ \E tm \in dbTimers : DebounceTimerFire(tm)
    \/ DebounceTick

\* ------------------------------------- Task, useTaskStore, RealmListener
\* new Realm.BSON.ObjectId().toHexString(): a value no earlier call returned
ObjectIds == 1..MaxTasks

\* realm.objectForPrimaryKey returns null when no object has the key
NoObject == 0

TaskTitles == {<<"A">>, <<"A", "n">>}

\* realm.objectForPrimaryKey('Task', _id): the position of the object
objectForPrimaryKey(table, id) ==
    IF \E i \in 1..Len(table) : table[i]._id = id
    THEN CHOOSE i \in 1..Len(table) : table[i]._id = id
    ELSE NoObject

\* realm.delete(obj)
realmDelete(table, obj) ==
    [i \in 1..(Len(table) - 1) |-> IF i < obj THEN table[i] ELSE table[i + 1]]

\* Mutant: the copy leaves `done` at its default.
loadTasksTitlesOnly(table) ==
    [i \in 1..Len(table) |->
        [_id |-> table[i]._id, title |-> table[i].title, done |-> FALSE]]

\* loadTasks: realm.objects('Task').map(task => ({_id, title, done}))
loadTasks(table) ==
    [i \in 1..Len(table) |->
        [_id |-> table[i]._id, title |-> table[i].title, done |-> table[i].done]]

\* addTask: realm.create('Task', {_id: new ObjectId, title, done: false})
addTask(table, newId, title) ==
    [table |-> Append(table, [_id |-> newId, title |-> title, done |-> FALSE]),
     threw |-> FALSE]

\* Mutant: every Task is toggled.
toggleDoneEvery(table, id) ==
    [table |-> [i \in 1..Len(table) |-> [table[i] EXCEPT !.done = ~@]],
     threw |-> FALSE]

\* toggleDone: if (obj) obj.done = !obj.done
toggleDone(table, id) ==
    LET obj == objectForPrimaryKey(table, id)
    IN  [table |-> IF obj # NoObject THEN [table EXCEPT ![obj].done = ~@] ELSE table,
         threw |-> FALSE]

\* removeTask: if (obj) realm.delete(obj)
removeTask(table, id) ==
    LET obj == objectForPrimaryKey(table, id)
    IN  [table |-> IF obj # NoObject THEN realmDelete(table, obj) ELSE table,
         threw |-> FALSE]

\* tasksResults.removeListener(listener)
removeListener(registered, callback) == registered \ {callback}

\* realm.write(...) committed: the Realm content is replaced, callbacks
\* registered on the results are notified when it changed.
RealmWrite(op, id, title, outcome) ==
    /\ realmTasks' = outcome.table
    /\ notified' = (notified \/ (outcome.table # realmTasks /\ listeners # {}))
    /\ lastOp' = [op |-> op, id |-> id, title |-> title, before |-> realmTasks,
                  threw |-> outcome.threw]

\* The Realm files found at start: empty, or one Task of an earlier session.
StoredTasks == {<<>>, <<[_id |-> 1, title |-> <<"A", "n">>, done |-> TRUE]>>}

\* ------------------------------------------------------------------ Todo
MinTaskLength == 1

MaxTaskLength == 50

\* The length the too-short message states.
StatedMinTaskLength == 2

TASK_TOO_SHORT == "A tarefa deve ter pelo menos 2 caracteres"

TASK_TOO_LONG == "A tarefa nao pode ter mais de 50 caracteres"

\* registerTaskSchema.newTask: z.string().min(1, ...).max(50, ...)
registerTaskSchemaIssues(v) ==
    IF v.kind # "string" THEN <<ZOD_REQUIRED>>
    ELSE LET i1 == IF Len(v.chars) < MinTaskLength THEN <<TASK_TOO_SHORT>> ELSE <<>>
         IN  IF Len(v.chars) > MaxTaskLength THEN Append(i1, TASK_TOO_LONG) ELSE i1

\* zodResolver(registerTaskSchema): the message of the first issue
taskResolver(title) ==
    IF registerTaskSchemaIssues(Str(title)) = <<>> THEN NoError
    ELSE Head(registerTaskSchemaIssues(Str(title)))

LongTitle(n) == [i \in 1..n |-> "n"]

TodoInputs == {<<>>, <<"A">>, <<"A", "n">>, LongTitle(MaxTaskLength + 1)}

\* State after RealmWrapper and Todo mounted and RealmListener's effect ran:
\* the listener is registered and loadTasks copied the stored Tasks.
InitTodo ==
    /\ realmTasks \in StoredTasks
    /\ nextObjectId = Len(realmTasks) + 1
    /\ listeners = {"listener"}
    /\ notified = TRUE
    /\ listenerMounted = TRUE
    /\ tasks = loadTasks(realmTasks)
    /\ loadedUnmounted = FALSE
    /\ lastOp = [op |-> "none", id |-> NoObject, title |-> <<>>, before |-> <<>>,
                 threw |-> FALSE]
    /\ addTaskCalls = 0
    /\ todoInput = <<>>
    /\ todoError = NoError
    /\ todoSubmitted = FALSE

\* No Todo screen under study: an empty Realm, nothing mounted.
IdleTodo ==
    /\ realmTasks = <<>>
    /\ nextObjectId = 1
    /\ listeners = {}
    /\ notified = FALSE
    /\ listenerMounted = FALSE
    /\ tasks = <<>>
    /\ loadedUnmounted = FALSE
    /\ lastOp = [op |-> "none", id |-> NoObject, title |-> <<>>, before |-> <<>>,
                 threw |-> FALSE]
    /\ addTaskCalls = 0
    /\ todoInput = <<>>
    /\ todoError = NoError
    /\ todoSubmitted = FALSE

OtherThanTodo == <<dvars, pvars, fvars, hvars, evars, svars, uvars>>

\* useTaskStore.addTask(realm, title) called by a caller.
AddTaskCall(title) ==
    /\ nextObjectId <= MaxTasks
    /\ RealmWrite("addTask", nextObjectId, title, addTask(realmTasks, nextObjectId, title))
    /\ nextObjectId' = nextObjectId + 1
    /\ addTaskCalls' = addTaskCalls + 1
    /\ UNCHANGED <<OtherThanTodo, listeners, listenerMounted, tasks, loadedUnmounted,
                   todoInput, todoError, todoSubmitted>>

\* onPress of a title, or a caller: toggleDone(realm, id).
ToggleDoneCall(id) ==
    /\ RealmWrite("toggleDone", id, <<>>, toggleDone(realmTasks, id))
    /\ UNCHANGED <<OtherThanTodo, nextObjectId, listeners, listenerMounted, tasks,
                   loadedUnmounted, addTaskCalls, todoInput, todoError, todoSubmitted>>

\* onPress of the remove button, or a caller: removeTask(realm, id).
RemoveTaskCall(id) ==
    /\ RealmWrite("removeTask", id, <<>>, removeTask(realmTasks, id))
    /\ UNCHANGED <<OtherThanTodo, nextObjectId, listeners, listenerMounted, tasks,
                   loadedUnmounted, addTaskCalls, todoInput, todoError, todoSubmitted>>

\* Realm delivers the change notification: listener() calls loadTasks(realm).
ListenerRun ==
    /\ notified
    /\ listeners # {}
    /\ notified' = FALSE
    /\ tasks' = loadTasks(realmTasks)
    /\ loadedUnmounted' = (loadedUnmounted \/ ~listenerMounted)
    /\ UNCHANGED <<OtherThanTodo, realmTasks, nextObjectId, listeners, listenerMounted,
                   lastOp, addTaskCalls, todoInput, todoError, todoSubmitted>>

\* RealmListener unmounts: the effect's cleanup removes the listener; a
\* notification not yet delivered has no callback left to call.
UnmountListener ==
    /\ listenerMounted
    /\ listenerMounted' = FALSE
    /\ listeners' = removeListener(listeners, "listener")
    /\ notified' = (notified /\ listeners' # {})
    /\ UNCHANGED <<OtherThanTodo, realmTasks, nextObjectId, tasks, loadedUnmounted,
                   lastOp, addTaskCalls, todoInput, todoError, todoSubmitted>>

\* RealmListener mounts again: addListener, then loadTasks(realm).
MountListener ==
    /\ ~listenerMounted
    /\ listenerMounted' = TRUE
    /\ listeners' = listeners \cup {"listener"}
    /\ notified' = TRUE
    /\ tasks' = loadTasks(realmTasks)
    /\ UNCHANGED <<OtherThanTodo, realmTasks, nextObjectId, loadedUnmounted, lastOp,
                   addTaskCalls, todoInput, todoError, todoSubmitted>>

\* The user edits the newTask field; after a rejected submit the field is
\* validated again on every change.
TodoChange(v) ==
    /\ v # todoInput
    /\ todoInput' = v
    /\ todoError' = IF todoSubmitted THEN taskResolver(v) ELSE todoError
    /\ UNCHANGED <<OtherThanTodo, realmTasks, nextObjectId, listeners, notified,
                   listenerMounted, tasks, loadedUnmounted, lastOp, addTaskCalls,
                   todoSubmitted>>

\* handleSubmit(onSubmit): the resolver, then for valid data onSubmit:
\* if (!data.newTask) return; addTask(realm, data.newTask); reset()
TodoSubmit ==
    /\ nextObjectId <= MaxTasks
    /\ IF taskResolver(todoInput) # NoError
       THEN /\ todoError' = taskResolver(todoInput)
            /\ todoSubmitted' = TRUE
            /\ UNCHANGED <<realmTasks, notified, lastOp, nextObjectId, addTaskCalls,
                           todoInput>>
       ELSE IF todoInput = <<>>
       THEN /\ todoError' = NoError
            /\ todoSubmitted' = TRUE
            /\ UNCHANGED <<realmTasks, notified, lastOp, nextObjectId, addTaskCalls,
                           todoInput>>
       ELSE /\ RealmWrite("addTask", nextObjectId, todoInput,
                          addTask(realmTasks, nextObjectId, todoInput))
            /\ nextObjectId' = nextObjectId + 1
            /\ addTaskCalls' = addTaskCalls + 1
            /\ todoInput' = <<>>
            /\ todoError' = NoError
            /\ todoSubmitted' = FALSE
    /\ UNCHANGED <<OtherThanTodo, listeners, listenerMounted, tasks, loadedUnmounted>>

NextTodo ==
    \/ \E title \in TaskTitles : AddTaskCall(title)
    \/ \E id \in ObjectIds : ToggleDoneCall(id)
    \/ \E id \in ObjectIds : RemoveTaskCall(id)
    \/ ListenerRun
    \/ UnmountListener
    \/ MountListener
    \/ \E v \in TodoInputs : TodoChange(v)
    \/ TodoSubmit

\* The parts added after the form-validation hooks, unused.
IdleRest == InitDebounceFn /\ IdleTodo

\* -------------------------------------------------------- specifications
\* One debounced field on screen.
Idle ==
    /\ IdlePassword /\ IdleForm /\ IdlePasswordHook /\ IdleEmailHook /\ InitStyles
    /\ IdleRest

NoDebounce == InitDebounce({}, 0, {"validateEmail"})

Init == InitDebounce({"email"}, MaxEdits, {"validateEmail"}) /\ Idle

Next == NextDebounce

Spec == Init /\ [][Next]_vars

\* Two debounced fields on screen.
InitFields == InitDebounce(Fields, MaxPairEdits, {"validateEmail"}) /\ Idle

NextFields == NextDebounce

SpecFields == InitFields /\ [][NextFields]_vars

\* The strength function applied to bounded inputs.
InitPwd ==
    /\ NoDebounce
    /\ InitPassword
    /\ IdleForm /\ IdlePasswordHook /\ IdleEmailHook /\ InitStyles /\ IdleRest

NextPwd == NextPassword

SpecPwd == InitPwd /\ [][NextPwd]_vars

\* A form built by useFormValidation.
InitFormSpec ==
    /\ NoDebounce
    /\ InitForm
    /\ IdlePassword /\ IdlePasswordHook /\ IdleEmailHook /\ InitStyles /\ IdleRest

NextFormSpec == NextForm

SpecForm == InitFormSpec /\ [][NextFormSpec]_vars

\* usePasswordValidation, used by a caller or inside ValidatedPasswordInput.
InitPwdHook ==
    /\ NoDebounce
    /\ InitPasswordHook
    /\ IdlePassword /\ IdleForm /\ IdleEmailHook /\ InitStyles /\ IdleRest

NextPwdHook == NextPasswordHook

SpecPwdHook == InitPwdHook /\ [][NextPwdHook]_vars

\* useEmailValidation.
InitEmail ==
    /\ NoDebounce
    /\ InitEmailHook
    /\ IdlePassword /\ IdleForm /\ IdlePasswordHook /\ InitStyles /\ IdleRest

NextEmail == NextEmailHook

SpecEmail == InitEmail /\ [][NextEmail]_vars

\* One debounced field whose validator is useEmailValidation's validate, which
\* the caller also calls directly, on one of a few addresses.
DirectEmails ==
    {<<>>,
     <<"a", "@", "b", ".", "c", "o">>,
     <<"t", "e", "s", "t", "@", "d", "o", "m", "a", "i", "n">>}

InitSchemaField == InitDebounce({"email"}, MaxPairEdits, {"emailValidate"}) /\ Idle

NextSchemaField ==
    \/ NextDebounce
    \/ \E email \in DirectEmails : EmailValidateCall(email)

SpecSchemaField == InitSchemaField /\ [][NextSchemaField]_vars

\* mergeStyleConfig and the callers of the objects it returns.
InitStyleSpec ==
    /\ NoDebounce
    /\ InitStyles
    /\ IdlePassword /\ IdleForm /\ IdlePasswordHook /\ IdleEmailHook /\ IdleRest

NextStyleSpec == NextStyles

SpecStyles == InitStyleSpec /\ [][NextStyleSpec]_vars

\* usePasswordValidation and useEmailValidation on one screen, driven with
\* the documented example passwords and a few addresses.
InitHooks ==
    /\ NoDebounce
    /\ InitPasswordHook
    /\ InitEmailHook
    /\ IdlePassword /\ IdleForm /\ InitStyles /\ IdleRest

NextHooks ==
    \/ \E p \in ExamplePasswords \cup {<<>>} : PasswordSetValue(p)
    \/ \E p \in ExamplePasswords : PasswordValidateCall(p)
    \/ PasswordResetCall
    \/ \E p \in ExamplePasswords \cup HookInitials : PasswordRenderWith(p)
    \/ \E v \in DirectEmails : EmailSetValue(v)
    \/ EmailResetCall

SpecHooks == InitHooks /\ [][NextHooks]_vars

\* debounce(fn, delay), twice, and the callers of the two functions.
InitDebounceSpec ==
    /\ NoDebounce
    /\ InitDebounceFn
    /\ IdlePassword /\ IdleForm /\ IdlePasswordHook /\ IdleEmailHook /\ InitStyles
    /\ IdleTodo

NextDebounceSpec == NextDebounceFn

SpecDebounceFn == InitDebounceSpec /\ [][NextDebounceSpec]_vars

\* The Todo screen inside RealmWrapper, and callers of the task store.
InitTodoSpec ==
    /\ NoDebounce
    /\ InitTodo
    /\ IdlePassword /\ IdleForm /\ IdlePasswordHook /\ IdleEmailHook /\ InitStyles
    /\ InitDebounceFn

NextTodoSpec == NextTodo

SpecTodo == InitTodoSpec /\ [][NextTodoSpec]_vars

\* ------------------------------------------------------------ properties

EmailField == "email"

C2_BlurValidatesImmediately ==
    \A f \in Fields :
        blurred[f] => validationResult[f] # Null /\ PendingOf(f) = {}

\* C3: an unmounted field has no pending timer, its validator is not called
\* and its result is not written any more; the unmount leaves the result and
\* the pending timer of every other field as they were.
C3_UnmountCancels ==
    /\ [](\A f \in Fields : ~mounted[f] => PendingOf(f) = {})
    /\ [][\A f \in Fields :
            /\ ~mounted[f] =>
                  /\ calls'[f] = calls[f]
                  /\ validationResult'[f] = validationResult[f]
            /\ (mounted[f] /\ ~mounted'[f]) =>
                  \A g \in Fields \ {f} :
                      /\ validationResult'[g] = validationResult[g]
                      /\ PendingOf(g)' = PendingOf(g)]_vars

\* A field unmounted mid-debounce, the clock past its window, another field
\* still validating or validated.
C3_Witness ==
    \E f \in Fields :
        /\ ~mounted[f]
        /\ cancelledDue[f] >= 0
        /\ now > cancelledDue[f]
        /\ calls[f] = 0
        /\ \E g \in Fields \ {f} :
              mounted[g] /\ (PendingOf(g) # {} \/ validationResult[g] # Null)

\* C4: a field never has two pending timers, and the pending one is the one
\* timeoutRef holds.
C4_OnePendingTimer ==
    \A f \in Fields :
        /\ Cardinality(PendingOf(f)) <= 1
        /\ \A t \in PendingOf(f) : t.id = timeoutRef[f]

\* A timer was superseded: the second timer of the field is the pending one.
C4_Witness ==
    /\ calls[EmailField] = 0
    /\ \E t \in PendingOf(EmailField) : t.id >= 2

FieldPasses(f) == SchemaIssues(f, formValues[f]) = <<>>

\* C6: a call of the submit handler calls onValid exactly when every field's
\* current value passes the schema; otherwise onValid is not called and
\* formState.errors then holds an error for every failing field, a field
\* never touched included.
C6_FormGate ==
    [][submits' = submits + 1 =>
          /\ onValidCalls' \in {onValidCalls, onValidCalls + 1}
          /\ (onValidCalls' = onValidCalls + 1) <=> (\A f \in FormFields : FieldPasses(f))
          /\ \A f \in FormFields : ~FieldPasses(f) => formErrors'[f] # NoError]_vars

\* One submit rejected with an untouched field in error, one accepted.
C6_Witness ==
    /\ submits = 2
    /\ onValidCalls = 1
    /\ ~touchedFields["name"]
    /\ formErrors["name"] # NoError
    /\ formErrors["password"] = NoError

\* C7: with the default options and no submit, an error is shown only while
\* the field's value fails the schema: an edit that makes the value valid
\* clears the error at once.
C7_ErrorClearsOnChange ==
    (formMode = "undefined" /\ formReValidateMode = "undefined" /\ ~isSubmitted) =>
        \A f \in FormFields : formErrors[f] # NoError => ~FieldPasses(f)

RequirementKeys ==
    <<"minLength", "hasUppercase", "hasLowercase", "hasNumber", "hasSymbol">>

MetCount(report) ==
    Cardinality({i \in 1..Len(RequirementKeys) : report.requirements[RequirementKeys[i]]})

MessageOrder ==
    <<PASSWORD_TOO_SHORT, PASSWORD_NO_UPPERCASE, PASSWORD_NO_LOWERCASE,
      PASSWORD_NO_NUMBER, PASSWORD_NO_SYMBOL>>

SuggestionOrder ==
    <<"Adicione mais caracteres (minimo 6)", "Adicione uma letra maiuscula",
      "Adicione uma letra minuscula", "Adicione um numero",
      "Adicione um simbolo como !@#$%^&*">>

UnmetIndexes(report) ==
    SelectSeq(<<1, 2, 3, 4, 5>>, LAMBDA i : ~report.requirements[RequirementKeys[i]])

\* C9: missingRequirements and suggestions have 5 - score entries each, the
\* entries of the unmet requirements in the order length, uppercase,
\* lowercase, number, symbol, entry i of both lists for the same requirement.
C9_MissingMatchesUnmet ==
    strength.computed =>
        LET unmet == UnmetIndexes(strength)
        IN  /\ Len(strength.missingRequirements) = 5 - strength.score
            /\ Len(strength.suggestions) = 5 - strength.score
            /\ strength.missingRequirements =
                  [i \in 1..Len(unmet) |-> MessageOrder[unmet[i]]]
            /\ strength.suggestions =
                  [i \in 1..Len(unmet) |-> SuggestionOrder[unmet[i]]]

\* "abc": four unmet requirements.
C9_Witness ==
    /\ password = <<"a", "b", "c">>
    /\ strength.computed
    /\ Len(strength.missingRequirements) = 4
    /\ Len(strength.suggestions) = 4

LabelOrder ==
    <<"Muito fraca", "Fraca", "Media", "Forte", "Muito forte", "Excelente">>

DocumentedScore(met, length) ==
    CASE met = 0 -> 0
      [] met = 1 -> 1
      [] met \in {2, 3} -> 2
      [] met = 4 -> 3
      [] met = 5 -> IF length >= 12 THEN 5 ELSE 4

\* C11: after usePasswordValidation validated a password, strength.score is
\* the documented score of the number of requirements met (0, 1, 2 for two
\* or three, 3 for four, 4 for five, 5 for five and 12 or more characters);
\* 'Abc123!' is valid, meets the five requirements and scores 4.
C11_DocumentedScale ==
    pwValidated # NullValue =>
        /\ pwStrength.score =
              DocumentedScore(MetCount(pwStrength), Len(pwValidated.chars))
        /\ pwValidated = Str(<<"A", "b", "c", "1", "2", "3", "!">>) =>
              /\ pwIsValid
              /\ MetCount(pwStrength) = 5
              /\ pwStrength.score = 4

RuleHolds(i, p) ==
    CASE i = 1 -> Len(p) >= 6
      [] i = 2 -> \E k \in 1..Len(p) : p[k] \in UpperChars
      [] i = 3 -> \E k \in 1..Len(p) : p[k] \in LowerChars
      [] i = 4 -> \E k \in 1..Len(p) : p[k] \in DigitChars
      [] i = 5 -> \E k \in 1..Len(p) : p[k] \in SymbolChars

IsValidAddress(s) ==
    /\ Len(s) >= 1
    /\ Len(s) <= 254
    /\ EmailPatternMatches(s)
    /\ Cardinality({k \in 1..Len(s) : s[k] = "@"}) = 1
    /\ \E a \in 1..Len(s) : s[a] = "@" /\ \E k \in (a + 1)..Len(s) : s[k] = "."

\* C14: validate(s) succeeds with no errors whenever the trimmed,
\* lower-cased form of s is a valid address.
C14_NormalizedBeforeRules ==
    emResult # Null =>
        (IsValidAddress(ToLowerCase(Trim(emArg.chars))) =>
            emResult.isValid /\ emResult.errors = <<>>)

ErrorRank(m) ==
    CASE m = EMAIL_REQUIRED -> 1
      [] m = EMAIL_TOO_LONG -> 2
      [] m = EMAIL_INVALID -> 3

\* C16: the messages of validate come in the order required, too-long,
\* format, domain; the hook's error is the first of them, and an edited field
\* that is empty shows the required message.
C16_FirstErrorByPriority ==
    /\ emResult # Null =>
          \A i, j \in 1..Len(emResult.errors) :
              i < j => ErrorRank(emResult.errors[i]) <= ErrorRank(emResult.errors[j])
    /\ emEdited =>
          emError = IF emailValidate(emValue, now).errors = <<>> THEN NoMessage
                    ELSE emailValidate(emValue, now).errors[1]
    /\ (emEdited /\ emValue = <<>>) => emError = EMAIL_REQUIRED

\* isValid, errors and ruleResults of one ValidationResult agree.
ResultConsistent(r) ==
    /\ r.isValid <=> r.errors = <<>>
    /\ r.isValid <=> \A k \in DOMAIN r.ruleResults : r.ruleResults[k]
    /\ DOMAIN r.ruleResults # {}

\* C17: the result validate returned, and the result the debounced field
\* surfaces for that validator, have isValid, empty errors and all-true
\* ruleResults equivalent, with ruleResults filled in on success and failure.
C17_ResultConsistent ==
    /\ emResult # Null => ResultConsistent(emResult)
    /\ \A f \in Fields :
          validationResult[f] # Null => ResultConsistent(validationResult[f])

\* The field surfaces a failure while validate last returned a success.
C17_Witness ==
    /\ emResult # Null
    /\ emResult.isValid
    /\ validationResult[EmailField] # Null
    /\ ~validationResult[EmailField].isValid

\* C18: defaultStyleConfig keeps its original values, every call returns an
\* object created by that call, and a key the argument does not override has
\* the original default in the object returned.
C18_DefaultNeverMutated ==
    /\ styleHeap[DefaultRef] = DefaultStyles
    /\ lastMerge.called =>
          /\ lastMerge.fresh
          /\ \A g \in StyleGroups : \A k \in DOMAIN DefaultStyles[g] :
                (g \notin DOMAIN lastMerge.custom.groups
                     \/ k \notin DOMAIN lastMerge.custom.groups[g])
                    => lastMerge.result[g][k] = DefaultStyles[g][k]

\* C19: the strength ValidatedPasswordInput hands to the indicator, shown
\* when the field is not empty, is calculatePasswordStrength of the field's
\* current value.
C19_StrengthFollowsField ==
    (pwUsage = "ValidatedPasswordInput" /\ pwInitial # <<>>) =>
        pwStrength = calculatePasswordStrength(pwInitial)

\* C20: once a non-empty value has stopped changing for longer than the
\* delay (same delay passed throughout), the hook returns a result, the
\* result of that value, and the validator ran once for it; also with a
\* validator created on every render.
C20_SettlesAndStays ==
    \A f \in Fields :
        (/\ mounted[f]
         /\ ~IsEmptyValue(value[f])
         /\ propsStable[f]
         /\ now > lastChangeAt[f] + delay[f]) =>
            /\ validationResult[f] # Null
            /\ callsSince[f] = 1

\* C21: a non-null result the hook returns was computed by the validator from
\* the value passed in that same render; no render returns the result of an
\* earlier value together with a newer value.
C21_ResultIsOfCurrentValue ==
    \A f \in Fields :
        (mounted[f] /\ ~returned[f].result.isNull)
            => /\ lastCall[f].value = returned[f].value
               /\ returned[f].result =
                      CallValidator(validator, returned[f].value, lastCall[f].at)

\* C22: each debounced function has at most one pending timer, and each burst
\* of its calls leads to exactly one call of fn, `delay` after the burst's last
\* call and with that call's arguments, calls made from inside fn included.
C22_OneTimerOneCallPerBurst ==
    \A d \in Debounced :
        /\ Cardinality(PendingOfFn(d)) <= 1
        /\ fnSince[d] <= 1
        /\ fnSince[d] = 1 =>
              /\ fnLast[d].args = dLast[d].args
              /\ fnLast[d].at = dLast[d].at + DebounceDelays[d]
        /\ (dLast[d].at >= 0 /\ dbNow > dLast[d].at + DebounceDelays[d]) =>
              fnSince[d] = 1

\* C23: in every state of usePasswordValidation, isValid is true exactly
\* when the exposed strength has score 5: never valid with an unmet
\* requirement, never invalid with the five requirements met.
C23_ValidIffScoreFive == pwIsValid <=> pwStrength.score = 5

C25_ResetIsFreshMount ==
    [][/\ PasswordResetCall =>
            LET fresh == passwordEffect(passwordInitialState(pwInitial))
            IN  /\ pwValue' = fresh.value
                /\ pwIsValid' = fresh.isValid
                /\ pwErrors' = fresh.errors
                /\ pwStrength' = fresh.strength
       /\ EmailResetCall =>
            LET fresh == emailEffect(emailInitialState(emInitial), now)
            IN  /\ emValue' = fresh.value
                /\ emIsValid' = fresh.isValid
                /\ emError' = fresh.error]_vars

C27_StoreFrame ==
    /\ ~lastOp.threw
    /\ lastOp.op = "toggleDone" =>
          /\ Len(realmTasks) = Len(lastOp.before)
          /\ \A i \in 1..Len(realmTasks) :
                realmTasks[i] =
                    IF lastOp.before[i]._id = lastOp.id
                    THEN [lastOp.before[i] EXCEPT !.done = ~@]
                    ELSE lastOp.before[i]
          /\ toggleDone(realmTasks, lastOp.id).table = lastOp.before
    /\ lastOp.op = "removeTask" =>
          realmTasks = SelectSeq(lastOp.before, LAMBDA t : t._id # lastOp.id)

\* One of two stored Tasks was toggled to done, the other is not done.
C27_Witness ==
    /\ lastOp.op = "toggleDone"
    /\ Len(realmTasks) = 2
    /\ \E i, j \in 1..2 :
          /\ realmTasks[i]._id = lastOp.id
          /\ realmTasks[i].done
          /\ ~lastOp.before[i].done
          /\ j # i
          /\ ~realmTasks[j].done

\* C28: with RealmListener mounted and every change notification delivered,
\* useTaskStore.tasks has exactly one {_id, title, done} entry per stored
\* Task, with equal field values; addTask adds exactly one Task, not done,
\* with the given title; after the unmount no listener is left and
\* loadTasks does not run.
C28_StoreMirrorsRealm ==
    /\ (listenerMounted /\ ~notified) =>
          /\ Len(tasks) = Len(realmTasks)
          /\ \A i \in 1..Len(realmTasks) :
                /\ tasks[i]._id = realmTasks[i]._id
                /\ tasks[i].title = realmTasks[i].title
                /\ tasks[i].done = realmTasks[i].done
          /\ \A i, j \in 1..Len(tasks) : tasks[i]._id = tasks[j]._id => i = j
    /\ lastOp.op = "addTask" =>
          /\ realmTasks =
                Append(lastOp.before,
                       [_id |-> lastOp.id, title |-> lastOp.title, done |-> FALSE])
          /\ \A i \in 1..Len(lastOp.before) : lastOp.before[i]._id # lastOp.id
    /\ ~listenerMounted => listeners = {}
    /\ ~loadedUnmounted

\* A Task was added and removed again; the store shows the one done Task left.
C28_Witness ==
    /\ listenerMounted
    /\ ~notified
    /\ lastOp.op = "removeTask"
    /\ Len(lastOp.before) = 2
    /\ Len(realmTasks) = 1
    /\ Len(tasks) = 1
    /\ tasks[1].done

\* C29: a submit of the Todo form calls addTask only for a title of 2 to 50
\* characters, then exactly once, with that title, and resets the input to
\* ''; a rejected submit calls no addTask and leaves the tasks unchanged.
C29_SubmitGate ==
    [][TodoSubmit =>
          IF addTaskCalls' # addTaskCalls
          THEN /\ Len(todoInput) >= StatedMinTaskLength
               /\ Len(todoInput) <= MaxTaskLength
               /\ addTaskCalls' = addTaskCalls + 1
               /\ realmTasks' =
                     Append(realmTasks,
                            [_id |-> nextObjectId, title |-> todoInput, done |-> FALSE])
               /\ todoInput' = <<>>
          ELSE /\ realmTasks' = realmTasks
               /\ tasks' = tasks]_vars

====
